---- MODULE Spec2Model ----
(***************************************************************************)
(* The camera and frame loop of shooter-game.                              *)
(*                                                                         *)
(* f32 quantities are fixed-point integers: the real number r is the       *)
(* integer r * ONE, ONE = 10^6.  Angles are radians in the same scale.     *)
(* Every product and quotient rounds to the nearest unit, as a float       *)
(* operation rounds to the nearest representable value.                    *)
(***************************************************************************)
EXTENDS Integers, Sequences, FiniteSets, TLC

(* ------------------------------------------------------------------ *)
(* f32 arithmetic                                                       *)
(* ------------------------------------------------------------------ *)
K == 10 ^ 3
ONE == K * K

\* The value of 0.0 / 0.0, and of every operation with a NaN operand.
NaN == 0 - (2000 * ONE)
\* The value of x / 0.0 for x > 0.
Inf == 2000 * ONE

Abs(a) == IF a < 0 THEN 0 - a ELSE a
Sgn(a) == IF a < 0 THEN 0 - 1 ELSE 1
Max(a, b) == IF a >= b THEN a ELSE b

\* |a| * |b| / ONE rounded to nearest, computed in halves of K so that no
\* intermediate value leaves the machine integer range.
MulAbs(a, b) ==
    LET ah == a \div K
        al == a % K
        bh == b \div K
        bl == b % K
        cross == ah * bl + al * bh
    IN  ah * bh + (cross \div K)
          + (((cross % K) * K + al * bl + (ONE \div 2)) \div ONE)

\* a * b
Mul(a, b) ==
    IF a = NaN \/ b = NaN THEN NaN
    ELSE Sgn(a) * Sgn(b) * MulAbs(Abs(a), Abs(b))

\* r * 10^n / b for 0 <= r < b, one decimal digit at a time, rounded to
\* nearest at the last digit.
RECURSIVE Frac(_, _, _, _)
Frac(r, b, n, acc) ==
    IF n = 0 THEN acc + (IF 2 * r >= b THEN 1 ELSE 0)
    ELSE Frac((r * 10) % b, b, n - 1, acc * 10 + ((r * 10) \div b))

DivAbs(a, b) == (a \div b) * ONE + Frac(a % b, b, 6, 0)

\* a / b with the IEEE results for a zero or infinite divisor.
Div(a, b) ==
    IF a = NaN \/ b = NaN THEN NaN
    ELSE IF b = 0 THEN (IF a = 0 THEN NaN ELSE Sgn(a) * Inf)
    ELSE IF Abs(b) = Inf THEN 0
    ELSE Sgn(a) * Sgn(b) * DivAbs(Abs(a), Abs(b))

Add(a, b) == IF a = NaN \/ b = NaN THEN NaN ELSE a + b
Neg(a) == IF a = NaN THEN NaN ELSE 0 - a
\* The largest m in lo..hi with m * m <= s.
RECURSIVE SqrtIn(_, _, _)
SqrtIn(s, lo, hi) ==
    IF lo >= hi THEN lo
    ELSE LET mid == (lo + hi + 1) \div 2
         IN  IF MulAbs(mid, mid) <= s THEN SqrtIn(s, mid, hi)
             ELSE SqrtIn(s, lo, mid - 1)

\* sqrt(s) for ONE <= s <= 4 * ONE.
Sqrt(s) == SqrtIn(s, ONE, 2 * ONE)

\* a % m of two floats: the remainder has the sign of the dividend.
Rem(a, m) == Sgn(a) * (Abs(a) % m)

clamp(x, min, max) == IF x < min THEN min ELSE IF x > max THEN max ELSE x

(* ------------------------------------------------------------------ *)
(* Angles                                                               *)
(* ------------------------------------------------------------------ *)
FRAC_PI_2 == 1570796
PI == 2 * FRAC_PI_2
TWO_PI == 2 * PI

\* sin and cos of d for |d| <= pi/4, by their Taylor polynomials.
SinT(d) ==
    LET d2 == Mul(d, d)
        t3 == ONE - (d2 \div 42)
        t2 == ONE - (Mul(d2, t3) \div 20)
        t1 == ONE - (Mul(d2, t2) \div 6)
    IN  Mul(d, t1)

CosT(d) ==
    LET d2 == Mul(d, d)
        t4 == ONE - (d2 \div 56)
        t3 == ONE - (Mul(d2, t4) \div 30)
        t2 == ONE - (Mul(d2, t3) \div 12)
    IN  ONE - (Mul(d2, t2) \div 2)

\* The quarter turn nearest to a, and what is left of a beyond it.
Quadrant(a) == (a + (FRAC_PI_2 \div 2)) \div FRAC_PI_2
Residue(a) == a - Quadrant(a) * FRAC_PI_2

sin(a) ==
    IF a = NaN THEN NaN
    ELSE LET q == Quadrant(a) % 4
             d == Residue(a)
         IN  CASE q = 0 -> SinT(d)
               [] q = 1 -> CosT(d)
               [] q = 2 -> 0 - SinT(d)
               [] q = 3 -> 0 - CosT(d)

cos(a) ==
    IF a = NaN THEN NaN
    ELSE LET q == Quadrant(a) % 4
             d == Residue(a)
         IN  CASE q = 0 -> CosT(d)
               [] q = 1 -> 0 - SinT(d)
               [] q = 2 -> 0 - CosT(d)
               [] q = 3 -> SinT(d)

\* The largest angle a in lo..hi with sin(a) <= y.
RECURSIVE AsinIn(_, _, _)
AsinIn(y, lo, hi) ==
    IF lo >= hi THEN lo
    ELSE LET mid == (lo + hi + 1) \div 2
         IN  IF sin(mid) <= y THEN AsinIn(y, mid, hi)
             ELSE AsinIn(y, lo, mid - 1)

asin(y) ==
    IF y = NaN \/ Abs(y) > ONE THEN NaN
    ELSE Sgn(y) * AsinIn(Abs(y), 0, FRAC_PI_2)

(* ------------------------------------------------------------------ *)
(* Vectors and matrices                                                 *)
(* ------------------------------------------------------------------ *)
NaNVec == <<NaN, NaN, NaN>>
unit_y == <<0, ONE, 0>>

VAdd(a, b) == <<Add(a[1], b[1]), Add(a[2], b[2]), Add(a[3], b[3])>>
VSub(a, b) == <<Add(a[1], Neg(b[1])), Add(a[2], Neg(b[2])), Add(a[3], Neg(b[3]))>>
VScale(s, v) == <<Mul(s, v[1]), Mul(s, v[2]), Mul(s, v[3])>>
dot(a, b) == Add(Add(Mul(a[1], b[1]), Mul(a[2], b[2])), Mul(a[3], b[3]))

cross(a, b) ==
    << Add(Mul(a[2], b[3]), Neg(Mul(a[3], b[2]))),
       Add(Mul(a[3], b[1]), Neg(Mul(a[1], b[3]))),
       Add(Mul(a[1], b[2]), Neg(Mul(a[2], b[1]))) >>

\* v / |v|.  The vector is first scaled by its largest component, which is
\* what the exponent of a float does, so that a vector of length 1e-5 keeps
\* its direction.  The zero vector gives 0/0 in every component.
\* Operands that are used more than once are passed as parameters: a
\* parameter is evaluated once for all its uses.
VDiv(v, m) == <<Div(v[1], m), Div(v[2], m), Div(v[3], m)>>
magnitude(u) == Sqrt(dot(u, u))
normalize_scaled(u) == VDiv(u, magnitude(u))
normalize_by(v, m) ==
    IF NaN \in {v[1], v[2], v[3]} \/ m = 0 THEN NaNVec
    ELSE normalize_scaled(VDiv(v, m))

normalize(v) == normalize_by(v, Max(Abs(v[1]), Max(Abs(v[2]), Abs(v[3]))))

\* The angle of the unit vector u in the xz plane, measured from x.
atan2_unit(u) ==
    IF u[1] >= 0 THEN asin(u[3])
    ELSE IF u[3] >= 0 THEN PI - asin(u[3])
    ELSE 0 - PI - asin(u[3])

\* atan2(z, x)
atan2(z, x) ==
    IF z = NaN \/ x = NaN THEN NaN
    ELSE IF z = 0 /\ x = 0 THEN 0
    ELSE atan2_unit(normalize(<<x, 0, z>>))

\* A 4x4 matrix is the tuple of its four columns, as Matrix4::new takes them.
\* (a * b)[column j][row i] = sum over k of a[k][i] * b[j][k].
MatMul(a, b) ==
    [j \in 1..4 |->
        [i \in 1..4 |->
            Add(Add(Mul(a[1][i], b[j][1]), Mul(a[2][i], b[j][2])),
                Add(Mul(a[3][i], b[j][3]), Mul(a[4][i], b[j][4])))]]

\* Matrix4::look_to_rh: f = dir.normalize(), s = f.cross(up).normalize(),
\* u = s.cross(f), and the matrix of the three.
look_to_fsu(eye, f, s, u) ==
    << <<s[1], u[1], Neg(f[1]), 0>>,
       <<s[2], u[2], Neg(f[2]), 0>>,
       <<s[3], u[3], Neg(f[3]), 0>>,
       <<Neg(dot(eye, s)), Neg(dot(eye, u)), dot(eye, f), ONE>> >>

look_to_fs(eye, f, s) == look_to_fsu(eye, f, s, cross(s, f))
look_to_f(eye, f, up) == look_to_fs(eye, f, normalize(cross(f, up)))
look_to_rh(eye, dir, up) == look_to_f(eye, normalize(dir), up)

look_at_rh(eye, center, up) == look_to_rh(eye, VSub(center, eye), up)

NEAR == 10000
FAR == 100000000

\* cgmath::perspective(fovy, aspect, near, far); it asserts that the aspect
\* ratio is not zero.
perspective_asserts(aspect) == aspect # 0

\* The matrix for f = cot(fovy / 2).
perspective_f(f, aspect, near, far) ==
    << <<Div(f, aspect), 0, 0, 0>>,
       <<0, f, 0, 0>>,
       <<0, 0, Div(far + near, near - far), 0 - ONE>>,
       <<0, 0, Div(2 * Mul(far, near), near - far), 0>> >>

perspective(fovy, aspect, near, far) ==
    perspective_f(Div(cos(fovy \div 2), sin(fovy \div 2)), aspect, near, far)

(* ------------------------------------------------------------------ *)
(* Bounds and input sets                                                *)
(* ------------------------------------------------------------------ *)
\* Frames in one behaviour of Spec and of SpecApp.
MaxFrames == 2
\* Frames in one behaviour of SpecMove.
MaxMoveFrames == 1
\* Pointer events between two frames.
MaxMotions == 2

MoveKeys == {"KeyW", "KeyS", "KeyA", "KeyD"}
AppKeys == {"KeyW", "Escape"}

\* Relative pointer motions <<x, y>> one OS event may carry.
PointerEvents == { <<PI, 0>>, <<0 - FRAC_PI_2, 0 - FRAC_PI_2>>, <<0, FRAC_PI_2>> }
QuarterTurn == { <<FRAC_PI_2, 0>> }

\* Window sizes <<width, height>>, in pixels.
Sizes == { <<0, 0>>, <<0, 1>>, <<1, 0>>, <<1, 1>>, <<2, 1>> }

VARIABLES camera, input, window_size, frame_count, rotation, status,
          last_op, aspect_ratio, CURRENT, ids, history

vars == <<camera, input, window_size, frame_count, rotation, status,
          last_op, aspect_ratio, CURRENT, ids, history>>

(* ------------------------------------------------------------------ *)
(* Input                                                                *)
(* ------------------------------------------------------------------ *)
Input_new == [held |-> {}, just_released |-> {}, pointer_delta |-> <<0, 0>>]

process_key_event(inp, key, pressed) ==
    IF pressed THEN [inp EXCEPT !.held = @ \cup {key}]
    ELSE [inp EXCEPT !.held = @ \ {key}, !.just_released = @ \cup {key}]

process_motion(inp, delta) ==
    [inp EXCEPT !.pointer_delta = <<@[1] + delta[1], @[2] + delta[2]>>]

key_down(inp, key) == key \in inp.held
key_pressed(inp, key) == key \in inp.held

\* Reading the pointer delta consumes it: device_offset(inp) is what the
\* read returns, drained(inp) the input it leaves behind.
device_offset(inp) == inp.pointer_delta
drained(inp) == [inp EXCEPT !.pointer_delta = <<0, 0>>]

reset_just_released(inp) == [inp EXCEPT !.just_released = {}]

(* ------------------------------------------------------------------ *)
(* Camera                                                               *)
(* ------------------------------------------------------------------ *)
EPSILON == 10
SPEED == 100000

create_view_matrix(position, forward_direction) ==
    look_at_rh(position, VAdd(position, forward_direction), <<0, ONE, 0>>)

create_perspective_matrix(aspect) == perspective(FRAC_PI_2, aspect, NEAR, FAR)

\* The struct literal that ends new_fps.
Camera(position, forward_direction, projection, view, right_direction) ==
    [ position |-> position,
      target |-> VAdd(position, forward_direction),
      forward_direction |-> forward_direction,
      up_direction |-> cross(forward_direction, right_direction),
      projection |-> projection,
      view |-> view,
      view_projection |-> MatMul(projection, view),
      view_mode |-> "FPS",
      yaw |-> atan2(forward_direction[3], forward_direction[1]),
      pitch |-> asin(forward_direction[2]) ]

new_fps(position, forward_direction, aspect) ==
    Camera(position, forward_direction,
           create_perspective_matrix(aspect),
           create_view_matrix(position, forward_direction),
           normalize(cross(forward_direction, unit_y)))

\* Mutants of yaw_after: the remainder forgotten; yaw clamped to half a
\* turn either way, as pitch is to a quarter.
yaw_after_unwrapped(yaw, offset) == yaw + offset[1]
yaw_after_clamped(yaw, offset) == clamp(yaw + offset[1], 0 - PI, PI)

\* self.yaw += offset.x % (2.0 * PI)
yaw_after(yaw, offset) == yaw + Rem(offset[1], TWO_PI)

\* Mutant of pitch_after: the clamp forgotten.
pitch_after_unclamped(pitch, offset) == pitch - offset[2]

\* self.pitch -= offset.y; self.pitch = self.pitch.clamp(..)
pitch_after(pitch, offset) ==
    IF pitch = NaN THEN NaN
    ELSE clamp(pitch - offset[2], (0 - FRAC_PI_2) + EPSILON, FRAC_PI_2 - EPSILON)

\* Mutant of moved: the KeyS branch copied from the KeyW branch, sign and all.
moved_back_adds(position, inp, forward, right) ==
    LET p1 == IF key_down(inp, "KeyW") THEN VAdd(position, VScale(SPEED, forward))
              ELSE position
        p2 == IF key_down(inp, "KeyS") THEN VAdd(p1, VScale(SPEED, forward)) ELSE p1
        p3 == IF key_down(inp, "KeyA") THEN VSub(p2, VScale(SPEED, right)) ELSE p2
    IN  IF key_down(inp, "KeyD") THEN VAdd(p3, VScale(SPEED, right)) ELSE p3

\* The four key tests, in the order of the code.
moved(position, inp, forward, right) ==
    LET p1 == IF key_down(inp, "KeyW") THEN VAdd(position, VScale(SPEED, forward))
              ELSE position
        p2 == IF key_down(inp, "KeyS") THEN VSub(p1, VScale(SPEED, forward)) ELSE p1
        p3 == IF key_down(inp, "KeyA") THEN VSub(p2, VScale(SPEED, right)) ELSE p2
    IN  IF key_down(inp, "KeyD") THEN VAdd(p3, VScale(SPEED, right)) ELSE p3

\* update_fps from the bottom up: the fields written once yaw, pitch,
\* forward and right are known; right from forward; forward from the
\* angles; the angles from the pointer offset.
update_fps_fields(cam, inp, yaw, pitch, forward, right_direction) ==
    [cam EXCEPT !.yaw = yaw,
                !.pitch = pitch,
                !.forward_direction = forward,
                !.up_direction = cross(forward, right_direction),
                !.position = moved(cam.position, inp, forward,
                                   right_direction)]

update_fps_forward(cam, inp, yaw, pitch, forward) ==
    update_fps_fields(cam, inp, yaw, pitch, forward,
                      normalize(cross(forward, unit_y)))

update_fps_angles(cam, inp, yaw, pitch) ==
    update_fps_forward(cam, inp, yaw, pitch,
                       normalize(<<Mul(cos(yaw), cos(pitch)), sin(pitch),
                                   Mul(sin(yaw), cos(pitch))>>))

update_fps_offset(cam, inp, offset) ==
    update_fps_angles(cam, inp, yaw_after(cam.yaw, offset),
                      pitch_after(cam.pitch, offset))

update_fps(cam, inp) == update_fps_offset(cam, inp, device_offset(inp))

\* Mutant of update_panics: the Orbit arm falls through to the FPS update.
update_falls_through(cam) == FALSE

\* Camera::update on an FPS camera; on an Orbit camera the call panics
\* before it reads or writes anything.
update_panics(cam) == cam.view_mode = "Orbit"

\* self.view = ..; self.view_projection = self.projection * self.view
with_view(c, view) ==
    [c EXCEPT !.view = view, !.view_projection = MatMul(c.projection, view)]

refreshed(c) ==
    with_view(c, create_view_matrix(c.position, c.forward_direction))

\* Mutant of update: view is rebuilt, view_projection is not.
update_stale(cam, inp) ==
    [update_fps(cam, inp) EXCEPT
        !.view = create_view_matrix(update_fps(cam, inp).position,
                                    update_fps(cam, inp).forward_direction)]

update(cam, inp) == refreshed(update_fps(cam, inp))

\* Mutant of set_aspect_ratio: the matrix is stored in the wrong field.
set_aspect_ratio_into_view(cam, aspect) ==
    [cam EXCEPT !.view = create_perspective_matrix(aspect)]

set_aspect_ratio(cam, aspect) ==
    [cam EXCEPT !.projection = create_perspective_matrix(aspect)]

(* ------------------------------------------------------------------ *)
(* UUID                                                                 *)
(* ------------------------------------------------------------------ *)
\* CURRENT.get_or_init(|| 0): the cell is written by the first call only.
get_or_init(cell) == IF cell = <<>> THEN <<0>> ELSE cell

UUID_new(cell) == get_or_init(cell)[1] + 1
(* ------------------------------------------------------------------ *)
(* Steps shared by the specifications                                   *)
(* ------------------------------------------------------------------ *)
\* What a behaviour remembers of its past: the camera as constructed, the
\* pointer motion the updates have applied (the sum of its x components,
\* whether any y component was not zero, whether the last update found no
\* motion at all) and the number of pointer events since the last frame.
History(cam) ==
    [ forward |-> cam.forward_direction, yaw |-> cam.yaw,
      position |-> cam.position, projection |-> cam.projection,
      turned |-> 0, tilted |-> FALSE, idle |-> FALSE, motions |-> 0 ]

\* The history after an update that consumed the pointer delta of inp.
Applied(h, inp) ==
    [h EXCEPT !.turned = @ + device_offset(inp)[1],
              !.tilted = @ \/ device_offset(inp)[2] # 0,
              !.idle = device_offset(inp) = <<0, 0>>,
              !.motions = 0]

Start(cam, size) ==
    /\ camera = cam
    /\ input = Input_new
    /\ window_size = size
    /\ frame_count = 0
    /\ rotation = 0
    /\ status = "running"
    /\ last_op = <<"new_fps", "ok">>
    /\ aspect_ratio = Div(size[1] * ONE, size[2] * ONE)
    /\ CURRENT = <<>>
    /\ ids = <<>>
    /\ history = History(cam)

ProcessKeyEvent(key, pressed) ==
    /\ status = "running"
    /\ IF pressed THEN key \notin input.held ELSE key \in input.held
    /\ input' = process_key_event(input, key, pressed)
    /\ last_op' = <<"process_key_event", "ok">>
    /\ UNCHANGED <<camera, window_size, frame_count, rotation, status,
                   aspect_ratio, CURRENT, ids, history>>

ProcessMotion(delta) ==
    /\ status = "running"
    /\ history.motions < MaxMotions
    /\ input' = process_motion(input, delta)
    /\ history' = [history EXCEPT !.motions = @ + 1]
    /\ last_op' = <<"process_motion", "ok">>
    /\ UNCHANGED <<camera, window_size, frame_count, rotation, status,
                   aspect_ratio, CURRENT, ids>>

(* ------------------------------------------------------------------ *)
(* Spec: a camera turned by the pointer, through its public functions   *)
(* ------------------------------------------------------------------ *)
Origin == <<0, 0, 0>>
\* Unit forward vectors; the last one looks up, asin of its y is pi/2.
Forwards == { <<ONE, 0, 0>>, <<0, 0, ONE>>, <<EPSILON, ONE, 0>> }

\* view_mode is a public field of a deserializable struct: a camera tagged
\* Orbit is a value a caller can hold although no constructor returns it.
Init ==
    \E f \in Forwards, m \in {"FPS", "Orbit"} :
        Start([new_fps(Origin, f, ONE) EXCEPT !.view_mode = m], <<1, 1>>)

NewOrbital ==
    /\ status = "running"
    /\ last_op' = <<"new_orbital", "unimplemented">>
    /\ UNCHANGED <<camera, input, window_size, frame_count, rotation, status,
                   aspect_ratio, CURRENT, ids, history>>

UpdateOrbit ==
    /\ status = "running"
    /\ update_panics(camera)
    /\ last_op' = <<"update", "unimplemented">>
    /\ UNCHANGED <<camera, input, window_size, frame_count, rotation, status,
                   aspect_ratio, CURRENT, ids, history>>

\* One Camera::update call that returns.
Update(limit) ==
    /\ status = "running"
    /\ frame_count < limit
    /\ ~update_panics(camera)
    /\ camera' = update(camera, input)
    /\ input' = drained(input)
    /\ history' = Applied(history, input)
    /\ frame_count' = frame_count + 1
    /\ last_op' = <<"update", "ok">>
    /\ UNCHANGED <<window_size, rotation, status, aspect_ratio, CURRENT, ids>>

Next ==
    \/ \E delta \in PointerEvents : ProcessMotion(delta)
    \/ NewOrbital
    \/ UpdateOrbit
    \/ Update(MaxFrames)

Spec == Init /\ [][Next]_vars

(* ------------------------------------------------------------------ *)
(* SpecMove: a camera moved by the keys                                 *)
(* ------------------------------------------------------------------ *)
InitMove ==
    \E f \in Forwards : Start(new_fps(Origin, f, ONE), <<1, 1>>)

NextMove ==
    \/ \E key \in MoveKeys : ProcessKeyEvent(key, TRUE)
    \/ \E delta \in QuarterTurn : ProcessMotion(delta)
    \/ Update(MaxMoveFrames)

SpecMove == InitMove /\ [][NextMove]_vars
(* ------------------------------------------------------------------ *)
(* SpecApp: the event loop of App::run                                  *)
(* ------------------------------------------------------------------ *)
InitApp ==
    \E size \in {<<1, 1>>, <<2, 1>>} :
        Start(new_fps(<<5 * ONE, 2 * ONE, 5 * ONE>>, <<0, 0, ONE>>,
                      Div(size[1] * ONE, size[2] * ONE)), size)

CloseRequested ==
    /\ status = "running"
    /\ status' = "exited"
    /\ last_op' = <<"CloseRequested", "ok">>
    /\ UNCHANGED <<camera, input, window_size, frame_count, rotation,
                   aspect_ratio, CURRENT, ids, history>>

KeyboardInput(key, pressed) == ProcessKeyEvent(key, pressed)

\* The window has its new size whatever becomes of the handler; the ratio
\* is computed before anything looks at the height.
Resized(new_size) ==
    LET aspect == Div(new_size[1] * ONE, new_size[2] * ONE)
    IN  /\ status = "running"
        /\ window_size' = new_size
        /\ aspect_ratio' = aspect
        /\ IF perspective_asserts(aspect)
           THEN /\ camera' = set_aspect_ratio(camera, aspect)
                /\ last_op' = <<"Resized", "ok">>
                /\ UNCHANGED status
           ELSE /\ status' = "panicked"
                /\ last_op' = <<"Resized", "assertion">>
                /\ UNCHANGED camera
        /\ UNCHANGED <<input, frame_count, rotation, CURRENT, ids, history>>

\* App::render returns before it touches the models when the window has
\* no area; otherwise every model instance gets the frame's rotation.
render(size, count, old) ==
    IF size[1] = 0 \/ size[2] = 0 THEN old ELSE count % 360

\* frame_count wraps at u128::MAX, which MaxFrames keeps out of reach.
RedrawRequested ==
    /\ status = "running"
    /\ frame_count < MaxFrames
    /\ IF update_panics(camera)
       THEN /\ status' = "panicked"
            /\ last_op' = <<"RedrawRequested", "unimplemented">>
            /\ UNCHANGED <<camera, input, frame_count, rotation, history>>
       ELSE /\ status' = IF key_pressed(input, "Escape") THEN "exited"
                         ELSE status
            /\ camera' = update(camera, input)
            /\ rotation' = render(window_size, frame_count, rotation)
            /\ frame_count' = frame_count + 1
            /\ input' = reset_just_released(drained(input))
            /\ history' = Applied(history, input)
            /\ last_op' = <<"RedrawRequested", "ok">>
    /\ UNCHANGED <<window_size, aspect_ratio, CURRENT, ids>>

\* ids holds the identifiers of the two most recent UUID::new calls.
LastTwo(q) == IF Len(q) > 2 THEN Tail(q) ELSE q

UUIDNew ==
    /\ status = "running"
    /\ CURRENT' = get_or_init(CURRENT)
    /\ ids' = LastTwo(Append(ids, UUID_new(CURRENT)))
    /\ last_op' = <<"UUID::new", "ok">>
    /\ UNCHANGED <<camera, input, window_size, frame_count, rotation, status,
                   aspect_ratio, history>>

NextApp ==
    \/ CloseRequested
    \/ \E key \in AppKeys, pressed \in BOOLEAN : KeyboardInput(key, pressed)
    \/ \E new_size \in Sizes : Resized(new_size)
    \/ RedrawRequested
    \/ UUIDNew

SpecApp == InitApp /\ [][NextApp]_vars
(* ------------------------------------------------------------------ *)
(* Properties                                                           *)
(* ------------------------------------------------------------------ *)
PitchMin == (0 - FRAC_PI_2) + EPSILON
PitchMax == FRAC_PI_2 - EPSILON
Updated == frame_count' = frame_count + 1
ZeroArea(size) == size[1] = 0 \/ size[2] = 0

C2_OrbitRejected ==
    [][ /\ last_op'[1] = "new_orbital" =>
             last_op'[2] = "unimplemented" /\ camera' = camera
        /\ (camera.view_mode = "Orbit" /\ last_op'[1] = "update") =>
             /\ last_op'[2] = "unimplemented"
             /\ camera' = camera
             /\ frame_count' = frame_count ]_vars

\* An update of an Orbit camera was refused while pointer motion was pending.
C2_Witness ==
    /\ camera.view_mode = "Orbit"
    /\ last_op = <<"update", "unimplemented">>
    /\ input.pointer_delta # <<0, 0>>

\* C3: a resize that passes set_aspect_ratio a ratio other than the current
\* one changes projection and leaves view, position, yaw, pitch, forward and
\* up as they were.
C3_AspectIsolation ==
    [][ (last_op' = <<"Resized", "ok">> /\ aspect_ratio' # aspect_ratio) =>
          /\ camera'.projection # camera.projection
          /\ camera'.view = camera.view
          /\ camera'.position = camera.position
          /\ camera'.yaw = camera.yaw
          /\ camera'.pitch = camera.pitch
          /\ camera'.forward_direction = camera.forward_direction
          /\ camera'.up_direction = camera.up_direction ]_vars

\* A resize after a frame that moved the camera has replaced the projection
\* the last update multiplied into view_projection.
C3_Witness ==
    /\ last_op = <<"Resized", "ok">>
    /\ frame_count >= 1
    /\ camera.position # history.position
    /\ camera.view_projection # MatMul(camera.projection, camera.view)

\* C4: a frame processed while the window has no width or no height leaves
\* position, yaw and pitch as they were, and no resize computes an aspect
\* ratio by dividing by zero.
C4_ZeroAreaFrameSkipped ==
    /\ [][ (last_op'[1] = "RedrawRequested" /\ ZeroArea(window_size)) =>
             /\ camera'.position = camera.position
             /\ camera'.yaw = camera.yaw
             /\ camera'.pitch = camera.pitch ]_vars
    /\ [](aspect_ratio \notin {NaN, Inf})

Held(key) == IF key \in input.held THEN 1 ELSE 0
Times(n, v) == <<n * v[1], n * v[2], n * v[3]>>

C6_Movement ==
    [][ Updated =>
          LET forward == camera'.forward_direction
              right == normalize(cross(forward, unit_y))
          IN  /\ camera'.position =
                   VAdd(camera.position,
                        VAdd(Times(Held("KeyW") - Held("KeyS"),
                                   VScale(SPEED, forward)),
                             Times(Held("KeyD") - Held("KeyA"),
                                   VScale(SPEED, right))))
              /\ ( /\ camera.position = Origin
                   /\ camera.forward_direction = <<ONE, 0, 0>>
                   /\ input.pointer_delta = <<0, 0>>
                   /\ input.held = {"KeyW"} ) =>
                     camera'.position = <<ONE \div 10, 0, 0>> ]_vars

\* After a quarter turn made in the same update, W and D held together have
\* moved a camera that started at the origin looking along x.
C6_Witness ==
    /\ frame_count = 1
    /\ history.forward = <<ONE, 0, 0>>
    /\ history.turned = FRAC_PI_2
    /\ input.held = {"KeyW", "KeyD"}
    /\ camera.position = <<0 - (ONE \div 10), 0, ONE \div 10>>

\* C7 as stated: in every state view_projection is projection * view.
C7_AlwaysFresh ==
    camera.view_projection = MatMul(camera.projection, camera.view)

\* C7 as amended: view_projection is projection * view after every update,
\* hence at the draw step of every frame; an aspect-ratio change leaves it
\* as it was until the next update.
C7_FreshAtDraw ==
    /\ [](last_op = <<"RedrawRequested", "ok">> =>
            camera.view_projection = MatMul(camera.projection, camera.view))
    /\ [][ last_op'[1] = "Resized" =>
             camera'.view_projection = camera.view_projection ]_vars

\* A frame was drawn after the window had been resized to another ratio.
C7_Witness ==
    /\ last_op = <<"RedrawRequested", "ok">>
    /\ frame_count = 2
    /\ window_size = <<1, 1>>
    /\ camera.projection # history.projection

\* C8: yaw is the yaw at construction plus the applied pointer motion, up
\* to whole turns, and is never clamped; once the motion applied adds up to
\* exactly one turn, with no vertical motion, forward is what it was at
\* construction.
C8_YawWraps ==
    /\ (camera.yaw - history.yaw - history.turned) % TWO_PI = 0
    /\ (Abs(history.turned) = TWO_PI /\ ~history.tilted) =>
          camera.forward_direction = history.forward

\* One turn spread over two updates: yaw itself has grown by 2 pi.
C8_Witness ==
    /\ frame_count = 2
    /\ history.turned = TWO_PI
    /\ ~history.tilted
    /\ camera.yaw = history.yaw + TWO_PI

\* C9: of two UUID::new calls the later returns the larger identifier.
C9_StrictlyIncreasing ==
    Len(ids) = 2 => ids[1] < ids[2]

\* C10: target is position + forward_direction in every state.
C10_TargetFollows ==
    camera.target = VAdd(camera.position, camera.forward_direction)
====
